---- MODULE Spec2Model ----
(***************************************************************************)
(* The task-token broker of the machine-translation pipeline.              *)
(*                                                                         *)
(* Two launchers start a Bedrock batch job and store the Step Functions    *)
(* task token in Parameter Store:                                          *)
(*   source/lambda/batch_inference/lambda_function.py      (translation)   *)
(*   source/lambda/quality_assessment/lambda_function.py   (assessment)    *)
(* The endpoint launcher invokes an asynchronous SageMaker endpoint and     *)
(* passes the token in the invocation's custom attributes:                 *)
(*   source/lambda/quality_estimation/lambda_function.py                   *)
(* The notification relay receives the jobs' state-change events and the   *)
(* endpoint's notifications and signals the waiting step:                  *)
(*   source/lambda/quality_estimation_notification/lambda_handler.py       *)
(*                                                                         *)
(* Spec is the configured system on the state machine's events, SpecLaunch *)
(* the launchers on any event under any configuration, SpecRelay the relay *)
(* on any message.                                                         *)
(*                                                                         *)
(* A string is a sequence of atoms; an atom is a piece of text that the    *)
(* code never cuts ("/" and the two job-name prefixes are atoms of their   *)
(* own, so split, "in" and os.path.join are computed as Python does).      *)
(* Python's None is NoneStr where a string is expected and NoneTok where a *)
(* token is expected.                                                      *)
(***************************************************************************)
EXTENDS Naturals, Sequences, FiniteSets

VARIABLES
    store,      \* Parameter Store: parameter name -> token (SecureString)
    tokState,   \* Step Functions: task token -> state of the waiting step
    jobs,       \* Bedrock: the batch jobs created so far, in creation order
    launch,     \* launcher invocations: launch[l] is invocation l's frame
    router,     \* notification-relay invocations: router[r] is r's frame
    env         \* os.environ of each launcher: is BATCH_ROLE_ARN / MODEL_ID set

vars == <<store, tokState, jobs, launch, router, env>>

----------------------------------------------------------------------------
(* Bounds of the model *)

\* launcher invocations
NumLaunch == 2
\* notification deliveries (relay invocations)
NumRouter == 2

Launches == 1..NumLaunch
Routers == 1..NumRouter

\* Invocations are numbered in the order they start.
InOrder(frames, i) == IF i = 1 THEN TRUE ELSE frames[i-1].pc # "idle"

----------------------------------------------------------------------------
(* Strings *)

NoneStr == <<"<None>">>
NoneTok == "<None>"

\* Python: atom in s
Contains(s, a) == \E i \in 1..Len(s) : s[i] = a

\* Python: s.split(a)[-1]
SplitLast(s, a) ==
    IF Contains(s, a)
    THEN LET i == CHOOSE k \in 1..Len(s) :
                      s[k] = a /\ \A m \in (k+1)..Len(s) : s[m] # a
         IN  SubSeq(s, i + 1, Len(s))
    ELSE s

\* Python: s.split(a)[0]
SplitFirst(s, a) ==
    IF Contains(s, a)
    THEN LET i == CHOOSE k \in 1..Len(s) :
                      s[k] = a /\ \A m \in 1..(k-1) : s[m] # a
         IN  SubSeq(s, 1, i - 1)
    ELSE s

\* posixpath.join(a, b)
PathJoin2(a, b) ==
    IF b # <<>> /\ b[1] = "/" THEN b
    ELSE IF a = <<>> \/ a[Len(a)] = "/" THEN a \o b
    ELSE a \o <<"/">> \o b

\* os.path.join(a, b, c)
PathJoin(a, b, c) == PathJoin2(PathJoin2(a, b), c)

----------------------------------------------------------------------------
(* The launchers' inputs *)

Kinds == {"translation", "assessment"}

\* event['executionId']
ExecIds == {<<"e1">>}

\* event['input_bucket']
Bucket == <<"bucket">>

\* event['input_file']: a key under the pipeline prefix, or absent (None)
InputFiles == {<<"data", "/", "pipeline", "/", "batch.jsonl">>, NoneStr}

\* The task token Step Functions issues for the wait that invocation l serves.
TokName(l) ==
    CASE l = 1 -> "tok1"
      [] l = 2 -> "tok2"
      [] l = 3 -> "tok3"
      [] OTHER -> "tok4"

Tokens == {TokName(l) : l \in Launches}

\* event.get('taskToken', ''): the issued token, or '' when the event has none
EventTokens(l) == {TokName(l), ""}

----------------------------------------------------------------------------
(* Names the launchers and the relay build *)

\* base64.b64encode(task_token.encode()).decode(): the text of each token
\* Step Functions may issue here; "=" is the padding.
B64Encode(token) ==
    CASE token = "tok1" -> <<"dG9rMQ", "=", "=">>
      [] token = "tok2" -> <<"dG9rMg", "=", "=">>
      [] token = "tok3" -> <<"dG9rMw", "=", "=">>
      [] OTHER -> <<"dG9rNA", "=", "=">>

\* custom_attributes = f"TaskToken={encoded_token}" (quality_estimation 46-47)
CustomAttributes(token) == <<"TaskToken", "=">> \o B64Encode(token)

JobPrefix(kind) ==
    IF kind = "translation" THEN "translation-job-" ELSE "assessment-job-"

\* job_name = f"translation-job-{execution_id}" / f"assessment-job-{execution_id}"
LaunchJobName(kind, execId) == <<JobPrefix(kind)>> \o execId

\* the qualifier of the launcher's parameter name
LaunchTokenDef(kind) ==
    IF kind = "translation" THEN "task-token" ELSE "assessment-task-token"

\* f"/bedrock/batch-jobs/{id}/{task_token_def}"
ParamName(id, def) == <<"/bedrock/batch-jobs/">> \o id \o <<"/", def>>

\* param_name of the launcher
LaunchParamName(kind, execId) == ParamName(execId, LaunchTokenDef(kind))

\* prefix = input_key.split("pipeline")[0]
KeyPrefix(inputKey) == SplitFirst(inputKey, "pipeline")

\* the s3Uri of outputDataConfig passed to create_model_invocation_job
LaunchOutputUri(kind, execId, inputKey) ==
    IF kind = "translation"
    THEN <<"s3:", "/", "/">>
           \o PathJoin(Bucket, KeyPrefix(inputKey), <<"pipeline", "/", "inferences", "/">>)
    ELSE <<"s3:", "/", "/">> \o Bucket \o <<"/">> \o KeyPrefix(inputKey)
           \o <<"pipeline", "/", "quality_control", "/">> \o execId \o <<"/">>

\* job_id of handle_bedrock_notification
RouterJobId(jobName) ==
    IF Contains(jobName, "translation-job-")
    THEN SplitLast(jobName, "translation-job-")
    ELSE SplitLast(jobName, "assessment-job-")

\* task_token_def of handle_bedrock_notification
RouterTokenDef(jobName) ==
    IF Contains(jobName, "translation-job-") THEN "task-token"
    ELSE "assessment-task-token"

\* output_file of handle_bedrock_notification
RouterOutputFile(jobName) ==
    IF Contains(jobName, "translation-job-") THEN "SUCCEEDED_0" ELSE "prompts"

\* param_name of get_task_token_from_job_id
RouterParamName(jobName) == ParamName(RouterJobId(jobName), RouterTokenDef(jobName))

\* The identifier Bedrock gives job number n (the last segment of its ARN).
JobIdName(n) ==
    CASE n = 1 -> "j1"
      [] n = 2 -> "j2"
      [] n = 3 -> "j3"
      [] OTHER -> "j4"

\* response['jobArn'] of job number n
JobArn(n) == <<"arn:aws:bedrock:model-invocation-job", "/", JobIdName(n)>>

\* Line 138 without the job id between the prefix and the file.
ResolvedOutputNoId(prefix, jobArn, jobName) ==
    PathJoin2(prefix, <<RouterOutputFile(jobName), ".jsonl.out">>)

\* os.path.join(output_location, id, f'{output_file}.jsonl.out') with id = job_arn.split('/')[-1]
ResolvedOutput(prefix, jobArn, jobName) ==
    PathJoin(prefix, SplitLast(jobArn, "/"), <<RouterOutputFile(jobName), ".jsonl.out">>)

----------------------------------------------------------------------------
(* Job statuses *)

\* The statuses Bedrock reports while a job has not ended.
ProgressStatuses == {"Submitted", "Validating", "Scheduled", "InProgress"}
\* The statuses a job can end in.
Outcomes == {"Completed", "Failed"}

\* Line 154 with one status left out of the list.
HeartbeatStatusesShort == {"Submitted", "Validating", "InProgress"}

\* Line 154: the statuses the relay answers with a heartbeat.
HeartbeatStatuses == {"Submitted", "Validating", "Scheduled", "InProgress"}

\* Line 158 ignoring the event's failureReason.
FailureCauseDefault(status, failureReason) == <<"Job ", status>>

\* detail.get('failureReason', f"Job {job_status}"); "" stands for an absent key
FailureCause(status, failureReason) ==
    IF failureReason = "" THEN <<"Job ", status>> ELSE <<failureReason>>

----------------------------------------------------------------------------
(* Step Functions *)

\* One call of the Step Functions API, as an invocation made it.
SfnCall(op, token, error, cause, outputLocation, jobId, accepted) ==
    [op |-> op, token |-> token, error |-> error, cause |-> cause,
     outputLocation |-> outputLocation, jobId |-> jobId, accepted |-> accepted]

\* SendTaskSuccess / SendTaskFailure / SendTaskHeartbeat succeed only for a
\* token whose step is still waiting; otherwise they raise.
SfnAccepts(token) == token \in DOMAIN tokState /\ tokState[token] = "waiting"

\* The step's state after an accepted call.
SfnAfter(op, token) ==
    IF ~SfnAccepts(token) \/ op = "heartbeat" THEN tokState
    ELSE [tokState EXCEPT ![token] = IF op = "success" THEN "succeeded" ELSE "failed"]

\* The waiting step times out or its execution is stopped.
EngineTimeout(t) ==
    /\ tokState[t] = "waiting"
    /\ \E l \in Launches : launch[l].pc # "idle" /\ launch[l].token = t
    /\ tokState' = [tokState EXCEPT ![t] = "timedout"]
    /\ UNCHANGED <<store, jobs, launch, router, env>>

----------------------------------------------------------------------------
(* The launchers *)

IdleLaunch ==
    [pc |-> "idle", kind |-> "translation", execId |-> <<>>, inputFile |-> <<>>,
     token |-> "", tokenBound |-> FALSE,
     job |-> 0, status |-> 0, raised |-> FALSE, error |-> "",
     ext |-> <<>>, calls |-> <<>>, outputLocation |-> <<>>, paramName |-> <<>>,
     customAttributes |-> <<>>, log |-> <<>>]

\* A log entry that shows a task token: the line that wrote it and whether
\* the token is there in full or as its first 20 characters.
LogEntry(line, token, form) == [line |-> line, token |-> token, form |-> form]

\* The entries written when an invocation starts: the launchers log the
\* whole event, taskToken included (batch_inference lines 16 and 27,
\* quality_assessment line 25, quality_estimation line 29).
EventLog(kind, token) ==
    IF token = "" \/ token = NoneTok THEN <<>>
    ELSE IF kind = "translation"
    THEN <<LogEntry(16, token, "full"), LogEntry(27, token, "full")>>
    ELSE IF kind = "assessment" THEN <<LogEntry(25, token, "full")>>
    ELSE <<LogEntry(29, token, "full")>>

\* The except block of the translation launcher (lines 93-112): the failure is
\* signalled only when task_token is a local and is not empty.
TranslationExcept(f, error) ==
    IF f.tokenBound /\ f.token # ""
    THEN [f EXCEPT !.pc = "fail", !.error = error]
    ELSE [f EXCEPT !.pc = "done", !.error = error, !.status = 500]

\* The except block of the assessment launcher (lines 109-125): "if task_token"
\* reads a local that is not bound when the failure came before line 61.
AssessmentExcept(f, error) ==
    IF ~f.tokenBound
    THEN [f EXCEPT !.pc = "done", !.error = "UnboundLocalError", !.raised = TRUE]
    ELSE IF f.token # ""
    THEN [f EXCEPT !.pc = "fail", !.error = error]
    ELSE [f EXCEPT !.pc = "done", !.error = error, !.status = 500]

LaunchExcept(f, error) ==
    IF f.kind = "translation" THEN TranslationExcept(f, error)
    ELSE AssessmentExcept(f, error)

\* The launcher up to its call of create_model_invocation_job:
\* batch_inference lines 26-59, quality_assessment lines 52-71.
LaunchBegin(f, s3ok) ==
    IF f.inputFile = NoneStr
    THEN \* input_key.split(...) / "bucket in input_key" raise on None
         LaunchExcept(f, "TypeError")
    ELSE LET g == [f EXCEPT !.tokenBound = TRUE] IN
         IF ~env[g.kind].roleArn THEN LaunchExcept(g, "ValueError")
         ELSE IF g.kind = "translation" THEN [g EXCEPT !.pc = "create"]
         ELSE \* prepare_assessment_prompts: s3.get_object, s3.put_object
              LET h == [g EXCEPT !.ext = Append(g.ext, "s3")] IN
              IF s3ok THEN [h EXCEPT !.pc = "create"]
              ELSE LaunchExcept(h, "S3Error")

\* A launcher invocation starts on an event and runs to its first call of
\* Bedrock (or to its end, when it fails before).
LaunchOn(l, kind, execId, inputFile, token, s3ok) ==
    /\ launch[l].pc = "idle"
    /\ InOrder(launch, l)
    /\ launch' = [launch EXCEPT ![l] =
          LaunchBegin([IdleLaunch EXCEPT !.kind = kind, !.execId = execId,
                          !.inputFile = inputFile, !.token = token,
                          !.log = EventLog(kind, token)], s3ok)]
    /\ UNCHANGED <<store, tokState, jobs, router, env>>

\* The event the state machine sends: every field present, the token of the wait.
LaunchStart(l) ==
    \E kind \in Kinds, execId \in ExecIds, inputFile \in InputFiles \ {NoneStr},
       s3ok \in BOOLEAN :
        LaunchOn(l, kind, execId, inputFile, TokName(l), s3ok)

\* Any event: input_file or taskToken may be missing.
LaunchStartAny(l) ==
    \E kind \in Kinds, execId \in ExecIds, inputFile \in InputFiles,
       token \in EventTokens(l), s3ok \in BOOLEAN :
        LaunchOn(l, kind, execId, inputFile, token, s3ok)

\* bedrock.create_model_invocation_job (batch_inference 61-68,
\* quality_assessment 73-89): the job exists when the call returns. The job
\* is identified by its ARN; Bedrock may start a second job under a name
\* already used (the launchers store with Overwrite=True for that case).
\* With modelId=None the client refuses the parameters and sends no request.
LaunchCreate(l) ==
    /\ launch[l].pc = "create"
    /\ LET f == IF env[launch[l].kind].modelId
                THEN [launch[l] EXCEPT !.ext = Append(launch[l].ext, "create")]
                ELSE launch[l] IN
       \/ /\ env[f.kind].modelId
          /\ \E outcome \in Outcomes :
                jobs' = Append(jobs,
                    [name |-> LaunchJobName(f.kind, f.execId),
                     arn |-> JobArn(Len(jobs) + 1),
                     outputUri |-> LaunchOutputUri(f.kind, f.execId, f.inputFile),
                     outcome |-> outcome, by |-> l])
          /\ launch' = [launch EXCEPT ![l] =
                           [f EXCEPT !.pc = "put", !.job = Len(jobs) + 1]]
       \/ /\ jobs' = jobs
          /\ launch' = [launch EXCEPT ![l] =
                LaunchExcept(f, IF env[f.kind].modelId THEN "ClientError" ELSE "ParamValidationError")]
    /\ UNCHANGED <<store, tokState, router, env>>

\* What the launcher returns with statusCode 200.
LaunchReturn(f) ==
    [f EXCEPT !.pc = "done", !.status = 200,
              !.paramName = LaunchParamName(f.kind, f.execId),
              !.outputLocation =
                  IF f.kind = "translation"
                  THEN LaunchOutputUri(f.kind, f.execId, f.inputFile)
                  ELSE <<"s3:", "/", "/">>
                         \o PathJoin(Bucket, KeyPrefix(f.inputFile),
                                     <<"pipeline", "/", "quality_control", "/">>)]

\* put_parameter that leaves an existing parameter as it is.
PutParameterKeepFirst(name, value) ==
    IF name \in DOMAIN store THEN store
    ELSE [k \in DOMAIN store \cup {name} |-> IF k = name THEN value ELSE store[k]]

\* Parameter Store after ssm.put_parameter(Name=name, Value=value,
\* Overwrite=True): one value per name, the new one.
PutParameter(name, value) ==
    [k \in DOMAIN store \cup {name} |-> IF k = name THEN value ELSE store[k]]

\* ssm.put_parameter(..., Overwrite=True) and the return (batch_inference
\* 75-91, quality_assessment 93-107). Parameter Store refuses an empty value.
LaunchPut(l) ==
    /\ launch[l].pc = "put"
    /\ LET f == [launch[l] EXCEPT !.ext = Append(launch[l].ext, "put")]
           name == LaunchParamName(f.kind, f.execId) IN
       \/ /\ f.token # ""
          /\ store' = PutParameter(name, f.token)
          /\ launch' = [launch EXCEPT ![l] = LaunchReturn(f)]
       \/ /\ store' = store
          /\ launch' = [launch EXCEPT ![l] =
                LaunchExcept(f, IF f.token = "" THEN "ValidationException" ELSE "ClientError")]
    /\ UNCHANGED <<tokState, jobs, router, env>>

\* sfn.send_task_failure in the except block, and the 500 result
\* (batch_inference 97-112, quality_assessment 111-125).
LaunchFail(l) ==
    /\ launch[l].pc = "fail"
    /\ LET f == launch[l]
           code == IF f.kind = "translation" THEN "BatchJobStartError"
                   ELSE "BatchAssessmentJobStartError" IN
       /\ launch' = [launch EXCEPT ![l] =
             [f EXCEPT !.pc = "done", !.status = 500,
                       !.calls = Append(f.calls,
                           SfnCall("failure", f.token, code, <<f.error>>, <<>>, <<>>,
                                   SfnAccepts(f.token))),
                       \* batch_inference line 104, after a call that did not raise
                       !.log = IF f.kind = "translation" /\ SfnAccepts(f.token)
                               THEN Append(f.log, LogEntry(104, f.token, "full"))
                               ELSE f.log]]
       /\ tokState' = SfnAfter("failure", f.token)
    /\ UNCHANGED <<store, jobs, router, env>>

----------------------------------------------------------------------------
(* The endpoint launcher: quality_estimation/lambda_function.py *)

\* response.get('OutputLocation') of invoke_endpoint_async
EndpointOutput == <<"s3:", "/", "/", "bucket", "/", "async-out", "/", "r1.out">>

\* lambda_handler lines 28-47: the endpoint name and the event's fields are
\* required; the token is encoded, which raises on None. Every exception
\* ends in a returned 500 (lines 73-86).
EstimateBegin(f) ==
    IF ~env["estimation"].endpointName
    THEN [f EXCEPT !.pc = "done", !.error = "ValueError", !.status = 500]
    ELSE IF f.execId = NoneStr \/ f.inputFile = NoneStr
    THEN [f EXCEPT !.pc = "done", !.error = "ValueError", !.status = 500]
    ELSE IF f.token = NoneTok
    THEN [f EXCEPT !.pc = "done", !.error = "AttributeError", !.status = 500]
    ELSE [f EXCEPT !.pc = "invoke", !.tokenBound = TRUE,
                   !.customAttributes = CustomAttributes(f.token)]

\* An invocation of the endpoint launcher starts on any event.
EstimateStart(l) ==
    /\ launch[l].pc = "idle"
    /\ InOrder(launch, l)
    /\ \E execId \in ExecIds \cup {NoneStr}, inputFile \in InputFiles,
          token \in {TokName(l), NoneTok} :
          launch' = [launch EXCEPT ![l] =
              EstimateBegin([IdleLaunch EXCEPT !.kind = "estimation", !.execId = execId,
                                !.inputFile = inputFile, !.token = token,
                                !.log = EventLog("estimation", token)])]
    /\ UNCHANGED <<store, tokState, jobs, router, env>>

\* sagemaker_runtime.invoke_endpoint_async (lines 51-58) and the return:
\* 200 with the output location, or 500 from "except ClientError" (73-79).
EstimateInvoke(l) ==
    /\ launch[l].pc = "invoke"
    /\ LET f == [launch[l] EXCEPT !.ext = Append(launch[l].ext, "invoke")] IN
       \/ launch' = [launch EXCEPT ![l] =
             [f EXCEPT !.pc = "done", !.status = 200, !.outputLocation = EndpointOutput]]
       \/ launch' = [launch EXCEPT ![l] =
             [f EXCEPT !.pc = "done", !.status = 500, !.error = "ClientError"]]
    /\ UNCHANGED <<store, tokState, jobs, router, env>>

----------------------------------------------------------------------------
(* The notification relay *)

IdleRouter ==
    [pc |-> "idle", job |-> 0, jobName |-> <<>>, jobArn |-> <<>>, status |-> "",
     outputLocation |-> <<>>, failureReason |-> "", taskToken |-> NoneTok,
     lookup |-> "", nGet |-> 0, nDescribe |-> 0, described |-> "",
     calls |-> <<>>, code |-> 0, raised |-> FALSE,
     source |-> "", eventSource |-> "", customAttributes |-> <<>>, log |-> <<>>]

\* The outputLocation an event may carry.
EventOutput == <<"s3:", "/", "/", "bucket", "/", "event-out.jsonl.out">>

\* The state-change events Bedrock may publish for job j: a progress status
\* or the job's final status; delivery is at least once and unordered.
BedrockEvents(j) ==
    {[IdleRouter EXCEPT !.source = "aws.bedrock",
                        !.job = j, !.jobName = jobs[j].name, !.jobArn = jobs[j].arn,
                        !.status = st, !.outputLocation = out, !.failureReason = fr] :
        st \in ProgressStatuses \cup {jobs[j].outcome},
        out \in {<<>>, EventOutput}, fr \in {"", "OutOfMemory"}}

\* An event as Bedrock shapes it: only a Completed event may carry an output
\* location, only a failure a reason.
WellShaped(e) ==
    /\ e.outputLocation # <<>> => e.status = "Completed"
    /\ e.failureReason # "" => e.status \notin ProgressStatuses \cup {"Completed"}

\* get_task_token_from_job_id (lines 16-34): the stored token, or None when
\* the parameter does not exist or the call fails.
GetTaskToken(f, ssmOk) ==
    LET name == RouterParamName(f.jobName) IN
    IF ~ssmOk THEN [f EXCEPT !.nGet = f.nGet + 1, !.lookup = "error"]
    ELSE IF name \in DOMAIN store
    THEN [f EXCEPT !.nGet = f.nGet + 1, !.lookup = "found", !.taskToken = store[name],
                   !.log = Append(f.log, LogEntry(27, store[name], "prefix"))]
    ELSE [f EXCEPT !.nGet = f.nGet + 1, !.lookup = "notfound"]

\* Lines 115-128 without the "if not task_token" return.
RouterLookupNoCheck(f, ssmOk) == [GetTaskToken(f, ssmOk) EXCEPT !.pc = "signal"]

\* handle_bedrock_notification lines 115-128: parse the event, look the
\* token up, return 400 without it.
RouterLookup(f, ssmOk) ==
    LET g == GetTaskToken(f, ssmOk) IN
    IF g.taskToken = NoneTok THEN [g EXCEPT !.pc = "done", !.code = 400]
    ELSE [g EXCEPT !.pc = "signal"]

\* A delivery of a Bedrock notification starts a relay invocation.
RouterReceive(r) ==
    /\ router[r].pc = "idle"
    /\ InOrder(router, r)
    /\ \E j \in 1..Len(jobs), ssmOk \in BOOLEAN :
       \E e \in BedrockEvents(j) :
          /\ WellShaped(e)
          /\ router' = [router EXCEPT ![r] = RouterLookup(e, ssmOk)]
    /\ UNCHANGED <<store, tokState, jobs, launch, env>>

\* Lines 132-142 without the test of line 133: the location is always taken
\* from get_model_invocation_job.
OutputLocationResolved(f, describeOk) ==
    IF describeOk
    THEN ResolvedOutput(jobs[f.job].outputUri, f.jobArn, f.jobName)
    ELSE NoneStr

\* Lines 132-142: the output location of the event, else the job's output
\* prefix from get_model_invocation_job joined with the job id and the file.
OutputLocation(f, describeOk) ==
    IF f.outputLocation # <<>> THEN f.outputLocation
    ELSE IF describeOk
    THEN ResolvedOutput(jobs[f.job].outputUri, f.jobArn, f.jobName)
    ELSE NoneStr

\* Lines 130-164 without the elif branch of line 154: a status that is not
\* Completed is answered with send_task_failure.
RouterCallNoHeartbeat(f, describeOk) ==
    IF f.status = "Completed"
    THEN SfnCall("success", f.taskToken, "", <<>>, OutputLocation(f, describeOk),
                 RouterJobId(f.jobName), SfnAccepts(f.taskToken))
    ELSE SfnCall("failure", f.taskToken, "BedrockJobFailed",
                 FailureCause(f.status, f.failureReason), <<>>, <<>>,
                 SfnAccepts(f.taskToken))

\* The Step Functions call the relay makes for the event (lines 130-164).
RouterCall(f, describeOk) ==
    IF f.status = "Completed"
    THEN SfnCall("success", f.taskToken, "", <<>>, OutputLocation(f, describeOk),
                 RouterJobId(f.jobName), SfnAccepts(f.taskToken))
    ELSE IF f.status \in HeartbeatStatuses
    THEN SfnCall("heartbeat", f.taskToken, "", <<>>, <<>>, <<>>, SfnAccepts(f.taskToken))
    ELSE SfnCall("failure", f.taskToken, "BedrockJobFailed",
                 FailureCause(f.status, f.failureReason), <<>>, <<>>,
                 SfnAccepts(f.taskToken))

\* Does the invocation call get_model_invocation_job (lines 130-135)?
NeedsDescribe(f) == f.status = "Completed" /\ f.outputLocation = <<>>

\* Lines 144-176 with a second attempt after a call that raised.
RouterResultRetry(f, call, describeOk) ==
    [f EXCEPT !.pc = "done",
              !.calls = IF call.accepted THEN Append(f.calls, call)
                        ELSE f.calls \o <<call, call>>,
              !.nDescribe = IF NeedsDescribe(f) THEN f.nDescribe + 1 ELSE f.nDescribe,
              !.described = IF ~NeedsDescribe(f) THEN ""
                            ELSE IF describeOk THEN "ok" ELSE "failed",
              !.code = IF call.accepted THEN 200 ELSE 500]

\* The result of handle_bedrock_notification after the call: 200, or 500
\* from the except block (lines 166-176) when the call raised.
RouterResult(f, call, describeOk) ==
    [f EXCEPT !.pc = "done", !.calls = Append(f.calls, call),
              !.nDescribe = IF NeedsDescribe(f) THEN f.nDescribe + 1 ELSE f.nDescribe,
              !.described = IF ~NeedsDescribe(f) THEN ""
                            ELSE IF describeOk THEN "ok" ELSE "failed",
              !.code = IF call.accepted THEN 200 ELSE 500]

\* Lines 130-176 followed by ssm.delete_parameter of the job's parameter
\* after a terminal call.
RouterSignalDeleting(r) ==
    /\ router[r].pc = "signal"
    /\ \E describeOk \in BOOLEAN :
          LET call == RouterCall(router[r], describeOk) IN
          /\ router' = [router EXCEPT ![r] = RouterResult(router[r], call, describeOk)]
          /\ tokState' = SfnAfter(call.op, call.token)
          /\ store' = IF call.op = "heartbeat" THEN store
                      ELSE [k \in DOMAIN store \ {RouterParamName(router[r].jobName)} |->
                               store[k]]
    /\ UNCHANGED <<jobs, launch, env>>

\* handle_bedrock_notification lines 130-176.
RouterSignal(r) ==
    /\ router[r].pc = "signal"
    /\ \E describeOk \in BOOLEAN :
          LET call == RouterCall(router[r], describeOk) IN
          /\ router' = [router EXCEPT ![r] = RouterResult(router[r], call, describeOk)]
          /\ tokState' = SfnAfter(call.op, call.token)
    /\ UNCHANGED <<store, jobs, launch, env>>

----------------------------------------------------------------------------
(* The relay on any message: the endpoint notifications and the dispatch *)

\* Python: s.split(a), a list of strings
RECURSIVE SplitAll(_, _)
SplitAll(s, a) ==
    IF ~Contains(s, a) THEN <<s>>
    ELSE LET head == SplitFirst(s, a) IN
         <<head>> \o SplitAll(SubSeq(s, Len(head) + 2, Len(s)), a)

\* Python: s.split(a, 1)[1], for s that contains a
AfterFirst(s, a) == SubSeq(s, Len(SplitFirst(s, a)) + 2, Len(s))

\* The tokens B64Encode is defined on.
IssuableTokens == {"tok1", "tok2", "tok3", "tok4"}

\* base64.b64decode(text.encode()).decode(): the token whose text it is;
\* None stands for the exception on any other text (caught at line 56).
B64Decode(text) ==
    IF \E t \in IssuableTokens : B64Encode(t) = text
    THEN CHOOSE t \in IssuableTokens : B64Encode(t) = text
    ELSE NoneTok

\* Line 45 cutting the attribute at every "=": the padding is lost.
AttributeValueNoPadding(attr) == SplitFirst(AfterFirst(attr, "="), "=")

\* key, value = attr.split('=', 1): the value of an attribute
AttributeValue(attr) == AfterFirst(attr, "=")

\* extract_task_token (lines 36-58): the attributes are cut at ";" and at
\* the first "="; the last TaskToken attribute is decoded; None without one
\* or when it does not decode.
ExtractTaskToken(customAttributes) ==
    LET attrs == SplitAll(customAttributes, ";")
        found == {i \in 1..Len(attrs) :
                     /\ Contains(attrs[i], "=")
                     /\ SplitFirst(attrs[i], "=") = <<"TaskToken">>}
    IN  IF found = {} THEN NoneTok
        ELSE LET i == CHOOSE k \in found : \A m \in found : m <= k
             IN  B64Decode(AttributeValue(attrs[i]))

\* requestParameters.customAttributes of the notifications SageMaker may
\* publish: the launcher's attribute alone or after another one, a token
\* that is not base64, no TaskToken attribute, no customAttributes at all.
CustomAttributeValues ==
    {CustomAttributes(t) : t \in Tokens}
        \cup {<<"Trace", "=", "1", ";">> \o CustomAttributes(TokName(1)),
              <<"TaskToken", "=", "!">>,
              <<"Trace", "=", "1">>,
              NoneStr}

\* The notifications of an asynchronous endpoint invocation: a success has
\* responseParameters.outputLocation, an error has a failureReason and may
\* lack responseParameters.
SagemakerEvents ==
    {[IdleRouter EXCEPT !.eventSource = "aws:sagemaker", !.customAttributes = ca,
                        !.status = "Completed", !.outputLocation = EventOutput] :
        ca \in CustomAttributeValues}
    \cup
    {[IdleRouter EXCEPT !.eventSource = "aws:sagemaker", !.customAttributes = ca,
                        !.status = "Failed", !.outputLocation = out,
                        !.failureReason = "ModelError"] :
        ca \in CustomAttributeValues, out \in {<<>>, EventOutput}}

\* A message that is neither a Bedrock event nor an endpoint notification.
UnsupportedEvent == [IdleRouter EXCEPT !.source = "aws.s3"]

\* An event without Records[0].Sns.Message, or whose Message is not JSON.
MalformedEvent == [IdleRouter EXCEPT !.source = "<malformed>"]

\* handle_sagemaker_notification lines 62-76: no token gives 400; the output
\* path is required before the status is looked at.
SagemakerBegin(f) ==
    IF f.customAttributes = NoneStr
    THEN \* KeyError at line 64, caught at line 102
         [f EXCEPT !.pc = "done", !.code = 500]
    ELSE LET t == ExtractTaskToken(f.customAttributes)
             g == [f EXCEPT !.taskToken = t,
                            !.log = IF t = NoneTok THEN f.log
                                    ELSE Append(f.log, LogEntry(52, t, "prefix"))] IN
         IF g.taskToken = NoneTok THEN [g EXCEPT !.pc = "done", !.code = 400]
         ELSE IF g.outputLocation = <<>>
         THEN \* ValueError at line 75, caught at line 102
              [g EXCEPT !.pc = "done", !.code = 500]
         ELSE [g EXCEPT !.pc = "respond"]

\* lambda_handler (lines 177-209): parse the SNS message and dispatch on
\* source / eventSource; every exception ends in a returned 500.
LambdaHandler(msg, ssmOk) ==
    IF msg.source = "<malformed>" THEN [msg EXCEPT !.pc = "done", !.code = 500]
    ELSE IF msg.source = "aws.bedrock" THEN RouterLookup(msg, ssmOk)
    ELSE IF msg.eventSource = "aws:sagemaker" THEN SagemakerBegin(msg)
    ELSE [msg EXCEPT !.pc = "done", !.code = 400]

\* The messages SNS may deliver to the relay.
AnyMessages ==
    {e \in UNION {BedrockEvents(j) : j \in 1..Len(jobs)} : WellShaped(e)}
        \cup SagemakerEvents \cup {UnsupportedEvent, MalformedEvent}

\* A delivery of any message starts a relay invocation.
RouterReceiveAny(r) ==
    /\ router[r].pc = "idle"
    /\ InOrder(router, r)
    /\ \E msg \in AnyMessages, ssmOk \in BOOLEAN :
          router' = [router EXCEPT ![r] = LambdaHandler(msg, ssmOk)]
    /\ UNCHANGED <<store, tokState, jobs, launch, env>>

\* The Step Functions call for an endpoint notification (lines 78-96).
SagemakerCall(f) ==
    IF f.status = "Completed"
    THEN SfnCall("success", f.taskToken, "", <<>>, f.outputLocation, <<>>,
                 SfnAccepts(f.taskToken))
    ELSE SfnCall("failure", f.taskToken, "SageMakerJobFailed",
                 IF f.failureReason = "" THEN <<"Unknown error">> ELSE <<f.failureReason>>,
                 <<>>, <<>>, SfnAccepts(f.taskToken))

\* handle_sagemaker_notification lines 78-108: the call, then 200, or 500
\* from the except block when the call raised.
SagemakerSignal(r) ==
    /\ router[r].pc = "respond"
    /\ LET call == SagemakerCall(router[r]) IN
       /\ router' = [router EXCEPT ![r] =
             [router[r] EXCEPT !.pc = "done", !.calls = Append(router[r].calls, call),
                               !.code = IF call.accepted THEN 200 ELSE 500,
                               \* line 96, after a send_task_failure that did not raise
                               !.log = IF call.op = "failure" /\ call.accepted
                                       THEN Append(router[r].log,
                                                   LogEntry(96, call.token, "full"))
                                       ELSE router[r].log]]
       /\ tokState' = SfnAfter(call.op, call.token)
    /\ UNCHANGED <<store, jobs, launch, env>>

----------------------------------------------------------------------------
(* The system *)

\* A configuration with BATCH_ROLE_ARN and MODEL_ID set for both launchers.
Configured == [k \in Kinds |-> [roleArn |-> TRUE, modelId |-> TRUE]]

InitWith(e) ==
    /\ store = <<>>
    /\ tokState = [t \in Tokens |-> "waiting"]
    /\ jobs = <<>>
    /\ launch = [l \in Launches |-> IdleLaunch]
    /\ router = [r \in Routers |-> IdleRouter]
    /\ env = e

\* The configured system: launchers and the relay on the state machine's events.
Init == InitWith(Configured)

Next ==
    \/ \E l \in Launches : LaunchStart(l)
    \/ \E l \in Launches : LaunchCreate(l)
    \/ \E l \in Launches : LaunchPut(l)
    \/ \E l \in Launches : LaunchFail(l)
    \/ \E r \in Routers : RouterReceive(r)
    \/ \E r \in Routers : RouterSignal(r)

Spec == Init /\ [][Next]_vars

\* os.environ of the three launchers; endpointName: is SAGEMAKER_ENDPOINT_NAME set.
WithEndpoint(e, endpointName) ==
    [k \in Kinds \cup {"estimation"} |->
        IF k \in Kinds THEN e[k] ELSE [endpointName |-> endpointName]]

\* The launchers alone, on any event and under any configuration.
InitLaunch ==
    \E e \in [Kinds -> [roleArn : BOOLEAN, modelId : BOOLEAN]], endpointName \in BOOLEAN :
        InitWith(WithEndpoint(e, endpointName))

NextLaunch ==
    \/ \E l \in Launches : LaunchStartAny(l)
    \/ \E l \in Launches : LaunchCreate(l)
    \/ \E l \in Launches : LaunchPut(l)
    \/ \E l \in Launches : LaunchFail(l)
    \/ \E l \in Launches : EstimateStart(l)
    \/ \E l \in Launches : EstimateInvoke(l)
    \/ \E t \in Tokens : EngineTimeout(t)

SpecLaunch == InitLaunch /\ [][NextLaunch]_vars

\* event['executionId'] of any event: Step Functions execution names are
\* chosen by whoever starts the execution.
AnyExecIds == {<<"e1">>, <<"translation-job-", "e1">>, <<"other-job-", "e1">>}

\* The frame of a launcher invocation that has returned 200 on an event
\* with the given kind and executionId.
Launched(kind, execId) ==
    LaunchReturn([IdleLaunch EXCEPT
        !.kind = kind, !.execId = execId,
        !.inputFile = <<"data", "/", "pipeline", "/", "batch.jsonl">>,
        !.token = TokName(1), !.tokenBound = TRUE, !.job = 1,
        !.log = EventLog(kind, TokName(1)),
        !.ext = IF kind = "translation" THEN <<"create", "put">>
                ELSE <<"s3", "create", "put">>])

\* The job that invocation started.
LaunchedJob(f, outcome) ==
    [name |-> LaunchJobName(f.kind, f.execId), arn |-> JobArn(f.job),
     outputUri |-> LaunchOutputUri(f.kind, f.execId, f.inputFile),
     outcome |-> outcome, by |-> 1]

\* A batch job of the account that no launcher started: the EventBridge
\* rule forwards the state changes of every Bedrock batch job.
ForeignJob ==
    [name |-> <<"other-job-", "e1">>, arn |-> JobArn(2),
     outputUri |-> <<"s3:", "/", "/", "elsewhere", "/", "out", "/">>,
     outcome |-> "Completed", by |-> 0]

\* The relay alone, on any message, in an account where one launcher
\* invocation has returned 200 and another batch job exists.
InitRelay ==
    \E kind \in Kinds, execId \in AnyExecIds, outcome \in Outcomes :
        LET f == Launched(kind, execId) IN
        /\ launch = [l \in Launches |-> IF l = 1 THEN f ELSE IdleLaunch]
        /\ jobs = <<LaunchedJob(f, outcome), ForeignJob>>
        /\ store = [k \in {f.paramName} |-> f.token]
        /\ tokState = [t \in Tokens |-> "waiting"]
        /\ router = [r \in Routers |-> IdleRouter]
        /\ env = Configured

NextRelay ==
    \/ \E r \in Routers : RouterReceiveAny(r)
    \/ \E r \in Routers : RouterSignal(r)
    \/ \E r \in Routers : SagemakerSignal(r)

SpecRelay == InitRelay /\ [][NextRelay]_vars

----------------------------------------------------------------------------
(* Properties *)

\* The Step Functions calls of relay invocation r with operation op.
RouterCalls(r, op) == {i \in 1..Len(router[r].calls) : router[r].calls[i].op = op}

TerminalStatuses == {"Completed", "Failed"}

\* Relay invocation r has made a terminal call (success or failure).
SentTerminal(r) == RouterCalls(r, "success") \cup RouterCalls(r, "failure") # {}

\* C1: of the deliveries of the Completed notification of one job, exactly
\* one makes a send_task_success call; the others are absorbed without one.
\* The relay never deletes the stored token, so every delivery makes the call.
C1_OneSuccessCallPerJob ==
    \A r1, r2 \in Routers :
        (/\ r1 # r2
         /\ router[r1].job = router[r2].job
         /\ router[r1].status = "Completed"
         /\ router[r2].status = "Completed"
         /\ RouterCalls(r1, "success") # {})
        => RouterCalls(r2, "success") = {}

\* C2: once create_model_invocation_job has returned to a launcher, the
\* parameter of its correlation key exists in Parameter Store.
C2_TokenStoredWhenJobStarted ==
    \A l \in Launches :
        launch[l].job # 0 =>
            LaunchParamName(launch[l].kind, launch[l].execId) \in DOMAIN store

\* C3: no terminal notification of a job is dropped for want of the token.
\* Stated for the launches that succeed (job started, token stored, 200
\* returned): their notifications are the ones the race can lose.
C3_TerminalNotificationFindsToken ==
    \A r \in Routers :
        (/\ router[r].pc # "idle"
         /\ router[r].status \in TerminalStatuses
         /\ launch[jobs[router[r].job].by].status = 200)
        => router[r].lookup # "notfound"

\* C4: every Step Functions call the relay makes for a notification of job J
\* carries the token of the launcher invocation that started J.
C4_SignalCarriesLaunchToken ==
    \A r \in Routers :
        \A i \in 1..Len(router[r].calls) :
            router[r].calls[i].token = launch[jobs[router[r].job].by].token

\* C5: a batch launcher invocation that fails with a non-empty taskToken in
\* its event sends exactly one send_task_failure with that token.
C5_LaunchFailureSignalled ==
    \A l \in Launches :
        (/\ launch[l].pc = "done"
         /\ launch[l].kind \in Kinds
         /\ launch[l].status # 200
         /\ launch[l].token # "")
        => /\ Len(launch[l].calls) = 1
           /\ launch[l].calls[1].op = "failure"
           /\ launch[l].calls[1].token = launch[l].token

\* C6: an invocation on a notification with status Submitted, Validating,
\* Scheduled or InProgress and a resolvable token makes exactly one
\* send_task_heartbeat call with that token and no other call, ends no wait,
\* and leaves Parameter Store as it was.
C6_HeartbeatOnly ==
    [][\A r \in Routers :
          (/\ router'[r] # router[r]
           /\ router'[r].status \in {"Submitted", "Validating", "Scheduled", "InProgress"})
          => /\ store' = store
             /\ tokState' = tokState
             /\ (router'[r].pc = "done" /\ router'[r].taskToken # NoneTok)
                => /\ Len(router'[r].calls) = 1
                   /\ router'[r].calls[1].op = "heartbeat"
                   /\ router'[r].calls[1].token = router'[r].taskToken]_vars

\* C6's case: a heartbeat went out for a Scheduled job.
C6_Witness ==
    \E r \in Routers :
        /\ router[r].pc = "done"
        /\ router[r].status = "Scheduled"
        /\ RouterCalls(r, "heartbeat") # {}

\* C7: after the relay has sent a terminal signal for a job, the parameter
\* of the job's correlation key is gone from Parameter Store.
C7_TokenDeletedAfterTerminal ==
    \A r \in Routers :
        (router[r].pc = "done" /\ SentTerminal(r))
        => RouterParamName(router[r].jobName) \notin DOMAIN store

\* C8: when the parameter is not found, the relay calls neither Step
\* Functions nor get_model_invocation_job, raises nothing and answers 400.
C8_NotFoundNoCall ==
    \A r \in Routers :
        router[r].lookup = "notfound"
        => /\ router[r].pc = "done"
           /\ router[r].calls = <<>>
           /\ router[r].nDescribe = 0
           /\ ~router[r].raised
           /\ router[r].code = 400

\* C8's case: a Completed notification whose parameter does not exist.
C8_Witness ==
    \E r \in Routers :
        /\ router[r].lookup = "notfound"
        /\ router[r].status = "Completed"
        /\ router[r].pc = "done"

\* C9: for a status other than Completed and the four progress statuses and
\* a resolvable token, the relay makes exactly one call: send_task_failure
\* with the token, error BedrockJobFailed and the event's failureReason as
\* cause ("Job <status>" when the event has none).
C9_FailureCall ==
    \A r \in Routers :
        (/\ router[r].pc = "done"
         /\ router[r].taskToken # NoneTok
         /\ router[r].status \notin
                {"Completed", "Submitted", "Validating", "Scheduled", "InProgress"})
        => /\ Len(router[r].calls) = 1
           /\ router[r].calls[1].op = "failure"
           /\ router[r].calls[1].token = router[r].taskToken
           /\ router[r].calls[1].error = "BedrockJobFailed"
           /\ router[r].calls[1].cause =
                 IF router[r].failureReason # "" THEN <<router[r].failureReason>>
                 ELSE <<"Job ", router[r].status>>

\* C9's case: a Failed notification with failureReason OutOfMemory was signalled.
C9_Witness ==
    \E r \in Routers :
        /\ router[r].pc = "done"
        /\ router[r].status = "Failed"
        /\ router[r].failureReason = "OutOfMemory"
        /\ RouterCalls(r, "failure") # {}

\* The file Bedrock writes for a job of the launcher's kind.
KindSuffix(kind) ==
    IF kind = "translation" THEN <<"SUCCEEDED_0", ".jsonl.out">>
    ELSE <<"prompts", ".jsonl.out">>

\* C10: for a Completed notification without outputLocation the relay calls
\* get_model_invocation_job once and sends success; when the call gives the
\* job's output prefix, the outputLocation sent is <prefix><job id>/<suffix>.
C10_ResolvedOutputLocation ==
    \A r \in Routers :
        (/\ router[r].pc = "done"
         /\ router[r].taskToken # NoneTok
         /\ router[r].status = "Completed"
         /\ router[r].outputLocation = <<>>)
        => LET job == jobs[router[r].job] IN
           /\ router[r].nDescribe = 1
           /\ Len(router[r].calls) = 1
           /\ router[r].calls[1].op = "success"
           /\ router[r].described = "ok"
              => router[r].calls[1].outputLocation =
                    job.outputUri \o <<job.arn[Len(job.arn)], "/">>
                        \o KindSuffix(launch[job.by].kind)

\* C10's case: the location of a translation job was resolved and sent.
C10_Witness ==
    \E r \in Routers :
        /\ router[r].pc = "done"
        /\ router[r].status = "Completed"
        /\ router[r].outputLocation = <<>>
        /\ router[r].described = "ok"
        /\ launch[jobs[router[r].job].by].kind = "translation"
        /\ RouterCalls(r, "success") # {}
        /\ router[r].calls[1].outputLocation =
              <<"s3:", "/", "/", "bucket", "/", "data", "/", "pipeline", "/",
                "inferences", "/", "j1", "/", "SUCCEEDED_0", ".jsonl.out">>

\* C11: when get_model_invocation_job fails (or its answer has no output
\* prefix) for a Completed notification without outputLocation, the relay
\* makes exactly one terminal call and that call is send_task_failure.
\* The relay sets output_location to None and sends success all the same.
C11_DescribeFailureSignalsFailure ==
    \A r \in Routers :
        (/\ router[r].pc = "done"
         /\ router[r].status = "Completed"
         /\ router[r].outputLocation = <<>>
         /\ router[r].described = "failed")
        => /\ Len(router[r].calls) = 1
           /\ router[r].calls[1].op = "failure"

\* The prefix of a job name, as a kind.
PrefixKind(jobName) ==
    IF jobName[1] = "translation-job-" THEN "translation" ELSE "assessment"

\* C12: a notification of a job named assessment-job-<id> is handled with
\* the qualifier assessment-task-token and the file prompts.jsonl.out, one
\* of a job named translation-job-<id> with task-token and
\* SUCCEEDED_0.jsonl.out, whatever the id: the relay finds the token exactly
\* when the parameter /bedrock/batch-jobs/<id>/<qualifier> exists, reports
\* <id> as jobId, and a location it resolves ends with the kind's file.
\* The relay tests "translation-job-" in job_name, not the prefix.
C12_KindByPrefix ==
    \A r \in Routers :
        (/\ router[r].pc # "idle"
         /\ router[r].source = "aws.bedrock"
         /\ router[r].jobName[1] \in {"translation-job-", "assessment-job-"})
        => LET kind == PrefixKind(router[r].jobName)
               id == Tail(router[r].jobName)
               name == ParamName(id, IF kind = "translation" THEN "task-token"
                                     ELSE "assessment-task-token")
           IN  /\ router[r].lookup = "found" => name \in DOMAIN store
               /\ router[r].lookup = "notfound" => name \notin DOMAIN store
               /\ \A i \in 1..Len(router[r].calls) :
                     router[r].calls[i].op = "success"
                     => /\ router[r].calls[i].jobId = id
                        /\ router[r].described = "ok"
                           => LET out == router[r].calls[i].outputLocation IN
                              SubSeq(out, Len(out) - 1, Len(out)) = KindSuffix(kind)

\* C13: a Bedrock notification whose batchJobName starts with neither
\* "translation-job-" nor "assessment-job-" is rejected: the relay reads no
\* parameter for it and makes no Step Functions call.
\* The relay treats every name without "translation-job-" as an assessment job.
C13_UnknownPrefixRejected ==
    \A r \in Routers :
        (/\ router[r].pc # "idle"
         /\ router[r].source = "aws.bedrock"
         /\ router[r].jobName[1] \notin {"translation-job-", "assessment-job-"})
        => /\ router[r].nGet = 0
           /\ router[r].calls = <<>>

\* The deliveries before r2 of an in-progress notification of r2's job that
\* have run to their end with the token in hand.
ProgressBefore(r2) ==
    {r1 \in 1..(r2 - 1) :
        /\ router[r1].pc = "done"
        /\ router[r1].jobName = router[r2].jobName
        /\ router[r1].lookup = "found"
        /\ router[r1].status \in {"Submitted", "Validating", "Scheduled", "InProgress"}}

\* The number of calls with operation op that the invocations in rs made.
RECURSIVE CountCalls(_, _)
CountCalls(rs, op) ==
    IF rs = {} THEN 0
    ELSE LET r == CHOOSE x \in rs : TRUE IN
         Cardinality(RouterCalls(r, op)) + CountCalls(rs \ {r}, op)

Delivered(jobName) ==
    \E r \in Routers :
        /\ router[r].jobName = jobName
        /\ \E i \in 1..Len(router[r].calls) :
              /\ router[r].calls[i].op \in {"success", "failure"}
              /\ router[r].calls[i].accepted

\* C15: a notification received for a job after a terminal signal for that
\* job has been delivered is a no-op (Parameter Store answering): the
\* invocation ends on receipt, goes on to no Step Functions call and
\* answers with no error code.
\* The token is still in Parameter Store, so the relay goes on to call.
C15_TerminalAbsorbing ==
    [][\A r \in Routers :
          (/\ router[r].pc = "idle"
           /\ router'[r].pc # "idle"
           /\ router'[r].lookup # "error"
           /\ Delivered(router'[r].jobName))
          => /\ router'[r].pc = "done"
             /\ router'[r].calls = <<>>
             /\ router'[r].code < 400]_vars

\* C16: when Step Functions rejects the relay's call (the token is no
\* longer waiting), the invocation does not raise, makes no second call and
\* reports the notification as handled (200).
\* The except block answers 500 with the error.
C16_RejectedCallHandled ==
    \A r \in Routers :
        (/\ router[r].pc = "done"
         /\ \E i \in 1..Len(router[r].calls) : ~router[r].calls[i].accepted)
        => /\ ~router[r].raised
           /\ Len(router[r].calls) = 1
           /\ router[r].code = 200

\* C17: an endpoint notification whose customAttributes carry a decodable
\* TaskToken is handled without reading Parameter Store and with exactly
\* one terminal call carrying the decoded token: send_task_success when
\* invocationStatus is Completed, send_task_failure otherwise.
\* Without responseParameters.outputLocation the relay raises before it
\* looks at the status.
C17_EndpointTerminalCall ==
    \A r \in Routers :
        (/\ router[r].pc = "done"
         /\ router[r].eventSource = "aws:sagemaker"
         /\ router[r].customAttributes # NoneStr
         /\ ExtractTaskToken(router[r].customAttributes) # NoneTok)
        => /\ router[r].nGet = 0
           /\ Len(router[r].calls) = 1
           /\ router[r].calls[1].token = ExtractTaskToken(router[r].customAttributes)
           /\ router[r].calls[1].op =
                 IF router[r].status = "Completed" THEN "success" ELSE "failure"

\* C18: on a message that is malformed or is neither a Bedrock event nor
\* an endpoint notification, the invocation fails (raises to the Lambda
\* runtime) and makes no Step Functions call.
\* lambda_handler returns a 400 or 500 result and never raises.
C18_MalformedFailsInvocation ==
    \A r \in Routers :
        (/\ router[r].pc = "done"
         /\ \/ router[r].source = "<malformed>"
            \/ router[r].source # "aws.bedrock" /\ router[r].eventSource # "aws:sagemaker")
        => /\ router[r].raised
           /\ router[r].calls = <<>>

\* C19: a batch launcher whose BATCH_ROLE_ARN or MODEL_ID is not set fails
\* before any external call: no S3 call, no create_model_invocation_job
\* request and no put_parameter is made in the invocation.
\* MODEL_ID is never checked: the assessment launcher has read and written
\* S3 when the job creation fails for want of it.
C19_ConfigErrorBeforeExternalCall ==
    \A l \in Launches :
        (/\ launch[l].pc # "idle"
         /\ launch[l].kind \in Kinds
         /\ ~env[launch[l].kind].roleArn \/ ~env[launch[l].kind].modelId)
        => /\ launch[l].ext = <<>>
           /\ launch[l].status # 200

\* C20: when invoke_endpoint_async fails in the endpoint launcher and the
\* event has a taskToken, the launcher sends send_task_failure with that
\* token.
\* The launcher has no Step Functions client: it returns 500 and nothing more.
C20_EndpointLaunchFailureSignalled ==
    \A l \in Launches :
        (/\ launch[l].pc = "done"
         /\ launch[l].kind = "estimation"
         /\ launch[l].error = "ClientError"
         /\ launch[l].token # NoneTok)
        => /\ Len(launch[l].calls) = 1
           /\ launch[l].calls[1].op = "failure"
           /\ launch[l].calls[1].token = launch[l].token

\* The log entries of a frame that show a token in full.
FullTokenEntries(frame) ==
    {i \in 1..Len(frame.log) : frame.log[i].form = "full"}

\* C21: no log entry of a launcher or of the relay shows a task token in
\* full; a token is logged only as its first characters.
\* The launchers log the whole event on entry.
C21_NoFullTokenInLogs ==
    /\ \A l \in Launches : FullTokenEntries(launch[l]) = {}
    /\ \A r \in Routers : FullTokenEntries(router[r]) = {}

\* C22: for every task token t, the relay decodes t from the customAttributes
\* string the endpoint launcher builds for t ("TaskToken=" + base64(t)).
C22_EmbeddedTokenRoundTrip ==
    \A r \in Routers :
        \A t \in Tokens :
            (/\ router[r].pc # "idle"
             /\ router[r].eventSource = "aws:sagemaker"
             /\ router[r].customAttributes = CustomAttributes(t))
            => router[r].taskToken = t

\* C22's case: the relay has decoded tok2 from the launcher's string for it.
C22_Witness ==
    \E r \in Routers :
        /\ router[r].pc = "done"
        /\ router[r].eventSource = "aws:sagemaker"
        /\ router[r].customAttributes = <<"TaskToken", "=", "dG9rMg", "=", "=">>
        /\ router[r].taskToken = "tok2"
        /\ Len(router[r].calls) = 1
        /\ router[r].calls[1].token = "tok2"

\* C23: for every execution id and both batch kinds, the parameter name the
\* relay derives from the batchJobName of a notification of the launcher's
\* job is the name under which the launcher stored the token.
\* An id that contains "translation-job-" is cut or read with the wrong
\* qualifier (the defect of C12).
C23_CorrelationKeyMirror ==
    \A r \in Routers :
        (/\ router[r].nGet > 0
         /\ jobs[router[r].job].by # 0)
        => RouterParamName(router[r].jobName)
              = launch[jobs[router[r].job].by].paramName

\* C24: Parameter Store holds one token per parameter name. A launcher's
\* put_parameter that succeeds leaves its own token under its name, whatever
\* was there (the last launcher wins), and leaves every other name alone; a
\* relay lookup that finds the parameter returns the token that is there.
C24_LastLauncherWins ==
    [][/\ \A l \in Launches :
             (launch[l].pc = "put" /\ launch'[l].status = 200)
             => LET name == LaunchParamName(launch[l].kind, launch[l].execId) IN
                /\ DOMAIN store' = DOMAIN store \cup {name}
                /\ store'[name] = launch[l].token
                /\ \A k \in DOMAIN store \ {name} : store'[k] = store[k]
       /\ \A r \in Routers :
             (router[r].pc = "idle" /\ router'[r].lookup = "found")
             => router'[r].taskToken = store[RouterParamName(router'[r].jobName)]]_vars

\* C24's case: both launchers ran for the same kind and execution id, the
\* second stored its token after the first, and a relay lookup returned it.
C24_Witness ==
    \E r \in Routers :
        /\ launch[1].status = 200
        /\ launch[2].status = 200
        /\ launch[1].paramName = launch[2].paramName
        /\ store[launch[2].paramName] = "tok2"
        /\ router[r].lookup = "found"
        /\ router[r].taskToken = "tok2"
        /\ jobs[router[r].job].by = 1

\* C25: a relay invocation, whatever the message and the outcome, makes at
\* most one get_parameter call, at most one get_model_invocation_job call
\* and at most one Step Functions call.
C25_AtMostOneCallEach ==
    \A r \in Routers :
        /\ router[r].nGet <= 1
        /\ router[r].nDescribe <= 1
        /\ Len(router[r].calls) <= 1

\* C25's case: an invocation that made each of the three calls once and
\* whose Step Functions call was rejected.
C25_Witness ==
    \E r \in Routers :
        /\ router[r].pc = "done"
        /\ router[r].nGet = 1
        /\ router[r].nDescribe = 1
        /\ Len(router[r].calls) = 1
        /\ ~router[r].calls[1].accepted
        /\ router[r].code = 500

\* C26: for a Completed Bedrock notification that carries
\* detail.outputLocation, the outputLocation of the success payload is that
\* value as it came, and get_model_invocation_job is not called.
C26_EventOutputVerbatim ==
    \A r \in Routers :
        (/\ router[r].pc = "done"
         /\ router[r].source = "aws.bedrock"
         /\ router[r].status = "Completed"
         /\ router[r].outputLocation # <<>>)
        => /\ router[r].nDescribe = 0
           /\ \A i \in RouterCalls(r, "success") :
                 router[r].calls[i].outputLocation = router[r].outputLocation

\* C26's case: the success for a Completed event with an output location
\* was sent with that location.
C26_Witness ==
    \E r \in Routers :
        /\ router[r].pc = "done"
        /\ router[r].status = "Completed"
        /\ router[r].outputLocation =
              <<"s3:", "/", "/", "bucket", "/", "event-out.jsonl.out">>
        /\ RouterCalls(r, "success") # {}
        /\ router[r].calls[1].outputLocation = router[r].outputLocation
        /\ router[r].nDescribe = 0

\* C27: the outputLocation a batch launcher returns with statusCode 200 is
\* the s3Uri of the outputDataConfig it passed to create_model_invocation_job.
\* The assessment launcher returns the prefix without the execution id.
C27_ReturnedOutputIsJobOutput ==
    \A l \in Launches :
        (/\ launch[l].pc = "done"
         /\ launch[l].kind \in Kinds
         /\ launch[l].status = 200)
        => launch[l].outputLocation = jobs[launch[l].job].outputUri

\* C28: no step of a relay invocation, for any message and any outcome,
\* changes Parameter Store: nothing is written and nothing is deleted.
C28_RelayLeavesStore ==
    [][(\E r \in Routers : router'[r] # router[r]) => store' = store]_vars

\* C28's case: the relay's success call for the launcher's job was accepted
\* and the job's parameter is still in Parameter Store with the token.
C28_Witness ==
    \E r \in Routers :
        /\ router[r].pc = "done"
        /\ router[r].lookup = "found"
        /\ \E i \in RouterCalls(r, "success") : router[r].calls[i].accepted
        /\ RouterParamName(router[r].jobName) \in DOMAIN store
        /\ store[RouterParamName(router[r].jobName)] = router[r].taskToken

\* C29: a batch launcher invocation that sends send_task_failure
\* (BatchJobStartError or BatchAssessmentJobStartError) and returns 500 has
\* started no job.
\* When put_parameter fails, the job that was created keeps running.
C29_FailureMeansNoJob ==
    \A l \in Launches :
        (/\ launch[l].pc = "done"
         /\ launch[l].kind \in Kinds
         /\ launch[l].status = 500
         /\ \E i \in 1..Len(launch[l].calls) :
               /\ launch[l].calls[i].op = "failure"
               /\ launch[l].calls[i].error
                     \in {"BatchJobStartError", "BatchAssessmentJobStartError"})
        => launch[l].job = 0

\* C30: a batch launcher invocation never raises: on every event and every
\* failure of an external call it returns statusCode 200 or 500, and 200
\* only when the job was started and the token stored.
\* The assessment launcher's except block reads task_token, which is not
\* bound when the failure came before its assignment.
C30_LauncherNeverRaises ==
    \A l \in Launches :
        (launch[l].pc = "done" /\ launch[l].kind \in Kinds)
        => /\ ~launch[l].raised
           /\ launch[l].status \in {200, 500}
           /\ launch[l].status = 200
              => /\ launch[l].job # 0
                 /\ LaunchParamName(launch[l].kind, launch[l].execId) \in DOMAIN store

====
